---- MODULE Spec2Model ----
(***************************************************************************)
(* Fourhills: fixed-width rendering of creature stat blocks                *)
(* (fourhills/stats.py) and the command-line front end                     *)
(* (fourhills/fourhills.py).                                               *)
(*                                                                         *)
(* Text is modelled by TLA+ strings: Len, \o, Head, Tail and SubSeq act on *)
(* them character by character, so every line below is the line the       *)
(* program would print.  A Python Optional[T] is a tuple: <<>> is None and *)
(* <<v>> is the value v.  A Python dict is the sequence of its (key,       *)
(* value) pairs in insertion order; a list is a sequence.                  *)
(***************************************************************************)
EXTENDS Integers, Sequences, FiniteSets, TLC

VARIABLES sb, call, ret

vars == <<sb, call, ret>>

(***************************************************************************)
(* Bounds of the model.                                                    *)
(***************************************************************************)
\* line widths tried: MIN_WIDTH - WidthSlack .. MIN_WIDTH + WidthSlack
WidthSlack == 2
\* ability scores tried: -ScoreBelow .. MaxScore
ScoreBelow == 3
MaxScore == 30
\* quantities tried by summary_info: None and 0 .. MaxQuantity
MaxQuantity == 3
\* a cheatsheet has at most MaxSections sections
MaxSections == 3
\* a setting has 1 .. MaxPanes panes of MinPaneWidth .. MinPaneWidth + PaneSlack
\* characters
MaxPanes == 3
MinPaneWidth == 3
PaneSlack == 1

(***************************************************************************)
(* Python built-ins on str and int.                                        *)
(***************************************************************************)
None == <<>>

Some(v) == <<v>>

\* bool(x) of an Optional[str]
TruthyStr(opt) == opt # <<>> /\ opt[1] # ""

\* bool(x) of an Optional[list] or Optional[dict]
TruthySeq(opt) == opt # <<>> /\ Len(opt[1]) > 0

RECURSIVE Repeat(_, _)
\* c * n, built by halving n
Repeat(c, n) ==
    IF n <= 0 THEN ""
    ELSE LET half == Repeat(c, n \div 2)
         IN  half \o half \o (IF n % 2 = 1 THEN c ELSE "")

CharAt(s, i) == SubSeq(s, i, i)

Lowers == "abcdefghijklmnopqrstuvwxyz"

Uppers == "ABCDEFGHIJKLMNOPQRSTUVWXYZ"

\* lower-case letter -> upper-case letter
UpperOf == [c \in {CharAt(Lowers, i) : i \in 1..26} |->
               CharAt(Uppers, CHOOSE i \in 1..26 : CharAt(Lowers, i) = c)]

\* upper-case letter -> lower-case letter
LowerOf == [c \in {CharAt(Uppers, i) : i \in 1..26} |->
               CharAt(Lowers, CHOOSE i \in 1..26 : CharAt(Uppers, i) = c)]

Upper(c) == IF c \in DOMAIN UpperOf THEN UpperOf[c] ELSE c

Lower(c) == IF c \in DOMAIN LowerOf THEN LowerOf[c] ELSE c

RECURSIVE LowerAll(_)
LowerAll(s) == IF s = "" THEN "" ELSE Lower(Head(s)) \o LowerAll(Tail(s))

\* str.capitalize(): first character upper-cased, the rest lower-cased
Capitalize(s) == IF s = "" THEN "" ELSE Upper(Head(s)) \o LowerAll(Tail(s))

Digits == "0123456789"

RECURSIVE NatStr(_)
NatStr(n) ==
    IF n < 10 THEN CharAt(Digits, n + 1)
    ELSE NatStr(n \div 10) \o CharAt(Digits, (n % 10) + 1)

\* f"{n:d}"
FormatD(n) == IF n < 0 THEN "-" \o NatStr(-n) ELSE NatStr(n)

\* f"{n:+d}"
FormatSignedD(n) == IF n < 0 THEN "-" \o NatStr(-n) ELSE "+" \o NatStr(n)

RECURSIVE Join(_, _)
\* sep.join(items)
Join(sep, items) ==
    IF Len(items) = 0 THEN ""
    ELSE IF Len(items) = 1 THEN items[1]
    ELSE items[1] \o sep \o Join(sep, Tail(items))

RECURSIVE Flatten(_)
\* the concatenation of a sequence of sequences
Flatten(ss) == IF Len(ss) = 0 THEN <<>> ELSE Head(ss) \o Flatten(Tail(ss))

(***************************************************************************)
(* fourhills.text_utils: imported by stats.py and fourhills.py, not among  *)
(* the source files; modelled from the design specification (4.1 - 4.5).   *)
(***************************************************************************)
\* the hanging indent of a wrapped paragraph's continuation lines
INDENT_WIDTH == 4

\* text centred in width characters, the odd space on the right; a text longer
\* than the field is emitted as it is
centre_pad(text, width) ==
    LET pad == width - Len(text)
    IN  IF pad <= 0 THEN text
        ELSE Repeat(" ", pad \div 2) \o text \o Repeat(" ", pad - (pad \div 2))

RECURSIVE SkipSpaces(_, _)
\* the first position from i on that holds no space, Len(text) + 1 when none
SkipSpaces(text, i) ==
    IF i <= Len(text) /\ CharAt(text, i) = " " THEN SkipSpaces(text, i + 1) ELSE i

RECURSIVE TokenEnd(_, _)
\* the first position from i on that holds a space, Len(text) + 1 when none
TokenEnd(text, i) ==
    IF i <= Len(text) /\ CharAt(text, i) # " " THEN TokenEnd(text, i + 1) ELSE i

RECURSIVE SplitFrom(_, _)
SplitFrom(text, i) ==
    LET start == SkipSpaces(text, i)
        end == TokenEnd(text, start)
    IN  IF start > Len(text) THEN <<>>
        ELSE <<SubSeq(text, start, end - 1)>> \o SplitFrom(text, end)

\* the whitespace-separated tokens of text
Split(text) == SplitFrom(text, 1)

RECURSIVE FillLine(_, _, _)
\* the line grown from cur by the tokens that fit, and the tokens left
FillLine(cur, toks, width) ==
    IF Len(toks) > 0 /\ Len(cur) + 1 + Len(Head(toks)) <= width
    THEN FillLine(cur \o " " \o Head(toks), Tail(toks), width)
    ELSE [line |-> cur, rest |-> toks]

RECURSIVE WrapTokens(_, _, _)
WrapTokens(toks, width, first) ==
    IF Len(toks) = 0 THEN <<>>
    ELSE LET start == (IF first THEN "" ELSE Repeat(" ", INDENT_WIDTH)) \o Head(toks)
             r == FillLine(start, Tail(toks), width)
         IN  <<r.line>> \o WrapTokens(r.rest, width, FALSE)

\* greedy word wrap, continuation lines indented, lines not padded
format_indented_paragraph(text, width) == WrapTokens(Split(text), width, TRUE)

\* "title: item, item, ..." wrapped as a paragraph
format_list(title, items, width) ==
    format_indented_paragraph(title \o ": " \o Join(", ", items), width)

\* text left-justified in width characters
LJust(text, width) == text \o Repeat(" ", width - Len(text))

\* a pane grown to n lines by blank lines of pane_width spaces
PadPane(pane, n, pane_width) ==
    [i \in 1..n |-> IF i <= Len(pane) THEN pane[i] ELSE Repeat(" ", pane_width)]

\* the number of lines of the longest pane of a group
MaxLines(group) ==
    IF Len(group) = 0 THEN 0
    ELSE CHOOSE m \in {Len(group[i]) : i \in 1..Len(group)} :
            \A i \in 1..Len(group) : Len(group[i]) <= m

\* the rows of one group: row i is line i of each of its panes, left to right
GroupRows(group, pane_width) ==
    [i \in 1..MaxLines(group) |->
        Join("", [j \in 1..Len(group) |->
                     PadPane(group[j], MaxLines(group), pane_width)[i]])]

\* the consecutive groups of num_panes panes, the last one maybe shorter
PaneGroups(panes, num_panes) ==
    [g \in 1..((Len(panes) + num_panes - 1) \div num_panes) |->
        SubSeq(panes, (g - 1) * num_panes + 1,
               IF g * num_panes <= Len(panes) THEN g * num_panes ELSE Len(panes))]

\* display_panes: the block of rows printed for each group
display_panes(panes, num_panes, pane_width) ==
    [g \in 1..Len(PaneGroups(panes, num_panes)) |->
        GroupRows(PaneGroups(panes, num_panes)[g], pane_width)]

(***************************************************************************)
(* fourhills/stats.py: class StatBlock.                                    *)
(***************************************************************************)
\* the least line width battle_info accepts
MIN_WIDTH == 56

\* the modifier rounded toward zero, as int((score - 10) / 2) would
ModifierTruncated(ability_score) ==
    IF ability_score >= 10 THEN (ability_score - 10) \div 2
    ELSE 0 - ((10 - ability_score) \div 2)

\* StatBlock.calculate_ability_modifier
calculate_ability_modifier(ability_score) == (ability_score - 10) \div 2

\* the header text of summary_info
header_text(s, quantity) ==
    IF quantity # None /\ quantity[1] # 0
    THEN s.name \o " x" \o FormatD(quantity[1])
    ELSE s.name

\* a rule one character short
RuleShort(c, line_width) == Repeat(c, line_width - 1)

\* a rule: c * line_width
Rule(c, line_width) == Repeat(c, line_width)

\* StatBlock.summary_info: the lines returned and the local header_text
summary_info(s, line_width, quantity) ==
    [raised |-> "", header_text |-> header_text(s, quantity),
     lines |-> <<centre_pad(header_text(s, quantity), line_width),
                 Rule("=", line_width),
                 Capitalize(s.size) \o " " \o s.creature_type \o ", " \o s.alignment>>]

\* the width check with the bound itself rejected
WidthTooNarrowOffByOne(line_width) == line_width <= MIN_WIDTH

\* the width check of battle_info: TRUE when ValueError is raised
WidthTooNarrow(line_width) == line_width < MIN_WIDTH

\* one section of the output of battle_info: its place in the layout, the
\* list handed to format_list (<<>> for a section that is no list) and its lines
Sec(name, items, lines) == <<[name |-> name, items |-> items, lines |-> lines]>>

\* the line divided among one cell too many
AbilityWidthOneMore(s, line_width) == line_width \div (Len(s.ability) + 1)

\* ability_width
AbilityWidth(s, line_width) == line_width \div Len(s.ability)

\* f"{score:d}({modifier:+d})"
ScoreText(score) ==
    FormatD(score) \o "(" \o FormatSignedD(calculate_ability_modifier(score)) \o ")"

\* ability_name_strings: the padded cell of each ability name, in stored order
AbilityNameStrings(s, line_width) ==
    [i \in 1..Len(s.ability) |-> centre_pad(s.ability[i][1], AbilityWidth(s, line_width))]

\* ability_score_strings: the padded cell of each score and modifier
AbilityScoreStrings(s, line_width) ==
    [i \in 1..Len(s.ability) |->
        centre_pad(ScoreText(s.ability[i][2]), AbilityWidth(s, line_width))]

AbilityNameRow(s, line_width) ==
    centre_pad(Join("", AbilityNameStrings(s, line_width)), line_width)

AbilityScoreRow(s, line_width) ==
    centre_pad(Join("", AbilityScoreStrings(s, line_width)), line_width)

\* [f"{key} {value}" for key, value in d.items()]
KeyValueItems(d) == [i \in 1..Len(d) |-> d[i][1] \o " " \o d[i][2]]

\* a list section emitted for every list that is not None, the empty one too
ListSectionNotNone(name, title, opt, line_width) ==
    IF opt # None
    THEN Sec(name, opt[1], format_list(title, opt[1], line_width))
    ELSE <<>>

\* an optional list section: format_list when the list is truthy, else nothing
ListSection(name, title, opt, line_width) ==
    IF TruthySeq(opt)
    THEN Sec(name, opt[1], format_list(title, opt[1], line_width))
    ELSE <<>>

\* an optional mapping section shown as a list of "key value" items
DictSection(name, title, opt, line_width) ==
    IF TruthySeq(opt)
    THEN Sec(name, KeyValueItems(opt[1]), format_list(title, KeyValueItems(opt[1]), line_width))
    ELSE <<>>

\* the sentinel appended to whatever the record holds
LanguagesItemsWithSentinel(s) ==
    (IF TruthySeq(s.languages) THEN s.languages[1] ELSE <<>>) \o <<"none">>

\* self.languages or ["none"]
LanguagesItems(s) == IF TruthySeq(s.languages) THEN s.languages[1] ELSE <<"none">>

\* an optional name -> text mapping, one paragraph per entry
ParagraphsSection(name, opt, line_width) ==
    IF TruthySeq(opt)
    THEN Sec(name, <<>>,
             Flatten([i \in 1..Len(opt[1]) |->
                 format_indented_paragraph(
                     Capitalize(opt[1][i][1]) \o ": " \o opt[1][i][2], line_width)]))
    ELSE <<>>

MeleeText(name, details) ==
    Capitalize(name) \o ": melee weapon attack, "
        \o details.hit \o " to hit, reach " \o details.reach \o ", "
        \o details.targets \o ". "
        \o "Hit damage: " \o details.damage \o "."
        \o (IF details.info # None THEN " " \o details.info[1] \o "." ELSE "")

RangedText(name, details) ==
    Capitalize(name) \o ": ranged weapon attack, "
        \o details.hit \o " to hit, range " \o details.range \o ","
        \o details.targets \o ". "
        \o "Hit damage: " \o details.damage \o "."
        \o (IF details.info # None THEN " " \o details.info[1] \o "." ELSE "")

MeleeSection(s, line_width) ==
    IF TruthySeq(s.melee_attacks)
    THEN Sec("melee_attacks", <<>>,
             Flatten([i \in 1..Len(s.melee_attacks[1]) |->
                 format_indented_paragraph(
                     MeleeText(s.melee_attacks[1][i][1], s.melee_attacks[1][i][2]),
                     line_width)]))
    ELSE <<>>

RangedSection(s, line_width) ==
    IF TruthySeq(s.ranged_attacks)
    THEN Sec("ranged_attacks", <<>>,
             Flatten([i \in 1..Len(s.ranged_attacks[1]) |->
                 format_indented_paragraph(
                     RangedText(s.ranged_attacks[1][i][1], s.ranged_attacks[1][i][2]),
                     line_width)]))
    ELSE <<>>

MultiattackSection(s, line_width) ==
    IF TruthyStr(s.multiattack)
    THEN Sec("multiattack", <<>>,
             format_indented_paragraph("Multiattack: " \o s.multiattack[1], line_width))
    ELSE <<>>

DescriptionSection(s, line_width) ==
    IF TruthyStr(s.description)
    THEN Sec("description", <<>>, format_indented_paragraph(s.description[1], line_width))
    ELSE <<>>

\* AC, HP, speed, and the ability rows between two rules
HeadSections(s, line_width) ==
       Sec("ac", <<>>, <<"AC " \o s.ac>>)
    \o Sec("hp", <<>>, <<"HP " \o s.hp>>)
    \o Sec("speed", <<>>, <<"Speed " \o s.speed>>)
    \o Sec("rule_abilities", <<>>, <<Rule("-", line_width)>>)
    \o Sec("ability_names", <<>>, <<AbilityNameRow(s, line_width)>>)
    \o Sec("ability_scores", <<>>, <<AbilityScoreRow(s, line_width)>>)
    \o Sec("rule_details", <<>>, <<Rule("-", line_width)>>)

\* saving throws to challenge rating
DetailSections(s, line_width) ==
       DictSection("saving_throws", "Saving throws", s.saving_throws, line_width)
    \o DictSection("skills", "Skills", s.skills, line_width)
    \o ListSection("damage_vulnerabilities", "Damage vulnerabilities",
                   s.damage_vulnerabilities, line_width)
    \o ListSection("damage_resistances", "Damage resistances",
                   s.damage_resistances, line_width)
    \o ListSection("damage_immunities", "Damage immunities",
                   s.damage_immunities, line_width)
    \o ListSection("condition_immunities", "Condition immunities",
                   s.condition_immunities, line_width)
    \o Sec("passive_perception", <<>>,
           <<"Passive perception: " \o FormatD(s.passive_perception)>>)
    \o DictSection("special_senses", "Senses", s.special_senses, line_width)
    \o Sec("languages", LanguagesItems(s),
           format_list("Languages", LanguagesItems(s), line_width))
    \o Sec("challenge", <<>>, <<"Challenge: " \o FormatD(s.challenge)>>)

\* the special traits under their header
TraitSections(s, line_width) ==
       Sec("blank_traits", <<>>, <<"">>)
    \o Sec("header_traits", <<>>, <<centre_pad("Special traits", line_width)>>)
    \o Sec("rule_traits", <<>>, <<Rule("-", line_width)>>)
    \o ParagraphsSection("special_traits", s.special_traits, line_width)

\* the actions with the ranged attacks ahead of the melee attacks
ActionSectionsRangedFirst(s, line_width) ==
       Sec("blank_actions", <<>>, <<"">>)
    \o Sec("header_actions", <<>>, <<centre_pad("Actions", line_width)>>)
    \o Sec("rule_actions", <<>>, <<Rule("-", line_width)>>)
    \o RangedSection(s, line_width)
    \o MeleeSection(s, line_width)
    \o MultiattackSection(s, line_width)
    \o ParagraphsSection("other_actions", s.other_actions, line_width)

\* the actions under their header
ActionSections(s, line_width) ==
       Sec("blank_actions", <<>>, <<"">>)
    \o Sec("header_actions", <<>>, <<centre_pad("Actions", line_width)>>)
    \o Sec("rule_actions", <<>>, <<Rule("-", line_width)>>)
    \o MeleeSection(s, line_width)
    \o RangedSection(s, line_width)
    \o MultiattackSection(s, line_width)
    \o ParagraphsSection("other_actions", s.other_actions, line_width)

\* the closing blank line and the description
TailSections(s, line_width) ==
       Sec("blank_description", <<>>, <<"">>)
    \o DescriptionSection(s, line_width)

\* the statements of battle_info after the width check, in program order
BattleSections(s, line_width) ==
       HeadSections(s, line_width)
    \o DetailSections(s, line_width)
    \o TraitSections(s, line_width)
    \o ActionSections(s, line_width)
    \o TailSections(s, line_width)

\* StatBlock.battle_info: the exception raised ("" when none), the lines
\* returned, the sections they came from, and the locals ability_width,
\* ability_name_strings and ability_score_strings
battle_info(s, line_width) ==
    IF WidthTooNarrow(line_width)
    THEN [raised |-> "ValueError", sections |-> <<>>, lines |-> <<>>,
          ability_width |-> 0, ability_name_strings |-> <<>>,
          ability_score_strings |-> <<>>]
    ELSE LET secs == BattleSections(s, line_width)
         IN  [raised |-> "", sections |-> secs,
              lines |-> Flatten([i \in 1..Len(secs) |-> secs[i].lines]),
              ability_width |-> AbilityWidth(s, line_width),
              ability_name_strings |-> AbilityNameStrings(s, line_width),
              ability_score_strings |-> AbilityScoreStrings(s, line_width)]

(***************************************************************************)
(* The stat blocks the model loads.                                        *)
(***************************************************************************)
OptionalFields ==
    {"saving_throws", "skills", "damage_vulnerabilities", "damage_resistances",
     "damage_immunities", "condition_immunities", "special_senses", "languages",
     "special_traits", "melee_attacks", "ranged_attacks", "multiattack",
     "other_actions", "description"}

AbilityNames == <<"STR", "DEX", "CON", "INT", "WIS", "CHA">>

LongAbilityNames ==
    <<"Strength", "Dexterity", "Constitution", "Intelligence", "Wisdom", "Charisma">>

\* six consecutive scores base + 1 .. base + 6 under the given names
Abilities(names, base) == [i \in 1..Len(names) |-> <<names[i], base + i>>]

DefaultAbility == Abilities(AbilityNames, 7)

\* a name of 55 characters: wider than some of the widths tried
LongName == "Venerable Iridescent Thunderclap Mountain Wyvern Matron"

\* an optional field: its value when present, else None or the empty value
Opt(field, present, absent_as, value, empty) ==
    IF field \in present THEN Some(value)
    ELSE IF absent_as = "empty" THEN Some(empty) ELSE None

\* StatBlock(**stat_dict)
StatBlock(name, ability, present, absent_as) ==
    [name |-> name, size |-> "large", creature_type |-> "beast",
     alignment |-> "unaligned", ac |-> "12", hp |-> "26 (4d10 + 4)",
     speed |-> "50 ft.", ability |-> ability, challenge |-> 1,
     passive_perception |-> 13,
     saving_throws |->
        Opt("saving_throws", present, absent_as, <<<<"DEX", "+5">>>>, <<>>),
     skills |->
        Opt("skills", present, absent_as,
            <<<<"Perception", "+3">>, <<"Stealth", "+6">>>>, <<>>),
     damage_vulnerabilities |->
        Opt("damage_vulnerabilities", present, absent_as, <<"fire">>, <<>>),
     damage_resistances |->
        Opt("damage_resistances", present, absent_as, <<"cold", "necrotic">>, <<>>),
     damage_immunities |->
        Opt("damage_immunities", present, absent_as, <<"poison">>, <<>>),
     condition_immunities |->
        Opt("condition_immunities", present, absent_as,
            <<"charmed", "frightened", "paralyzed", "petrified", "poisoned">>, <<>>),
     special_senses |->
        Opt("special_senses", present, absent_as, <<<<"darkvision", "60 ft.">>>>, <<>>),
     languages |->
        Opt("languages", present, absent_as, <<"Sylvan", "Common", "Elvish">>, <<>>),
     special_traits |->
        Opt("special_traits", present, absent_as,
            <<<<"keen smell", "Advantage on Perception checks that rely on smell.">>,
              <<"pounce", "Knocks a creature prone.">>>>, <<>>),
     melee_attacks |->
        Opt("melee_attacks", present, absent_as,
            <<<<"bite", [hit |-> "+5", reach |-> "5 ft.", targets |-> "one target",
                        damage |-> "7 (1d8 + 3) piercing", info |-> None]>>,
              <<"claw", [hit |-> "+5", reach |-> "5 ft.", targets |-> "one target",
                        damage |-> "6 (1d6 + 3) slashing",
                        info |-> Some("The target is grappled")]>>>>, <<>>),
     ranged_attacks |->
        Opt("ranged_attacks", present, absent_as,
            <<<<"spit", [hit |-> "+3", range |-> "20/60 ft.", targets |-> "one target",
                        damage |-> "3 (1d6) acid", info |-> None]>>>>, <<>>),
     multiattack |->
        Opt("multiattack", present, absent_as, "One bite and one claw.", ""),
     other_actions |->
        Opt("other_actions", present, absent_as, <<<<"roar", "Frightens foes.">>>>, <<>>),
     description |->
        Opt("description", present, absent_as,
            "A great cat that hunts in prides across the open grassland.", "")]

\* every combination of present (non-empty) and absent (None) optional fields
PresenceStatBlocks ==
    {StatBlock("Lion", DefaultAbility, present, "none") :
        present \in SUBSET OptionalFields}

\* the same with empty collections and strings in place of None, for the
\* combinations with at most one field, or all but at most one, non-empty
EmptyStatBlocks ==
    {StatBlock("Lion", DefaultAbility, present, "empty") :
        present \in {p \in SUBSET OptionalFields :
                        \/ Cardinality(p) <= 1
                        \/ Cardinality(p) >= Cardinality(OptionalFields) - 1}}

SectionStatBlocks == PresenceStatBlocks \cup EmptyStatBlocks

\* the bases of the ability dictionaries: together they hold every score
\* 1 .. MaxScore
Bases == {b \in 0..(MaxScore - 6) : b % 6 = 0 \/ b = MaxScore - 6}

\* short and long names, every ability score, no or all optional fields
LayoutStatBlocks ==
    {StatBlock(name, Abilities(names, base), present, "none") :
        name \in {"Lion", LongName},
        names \in {AbilityNames, LongAbilityNames},
        base \in Bases,
        present \in {{}, OptionalFields}}

Widths == (MIN_WIDTH - WidthSlack)..(MIN_WIDTH + WidthSlack)

Scores == (0 - ScoreBelow)..MaxScore

Quantities == {None} \cup {Some(q) : q \in 0..MaxQuantity}

(***************************************************************************)
(* fourhills/fourhills.py: the command group and the cheatsheet command.   *)
(***************************************************************************)
\* lower-case letter -> its rank in the alphabet
CodeOf == [c \in {CharAt(Lowers, i) : i \in 1..26} |->
              CHOOSE i \in 1..26 : CharAt(Lowers, i) = c]

RECURSIVE StrLess(_, _)
\* a < b on str: lexicographic by character
StrLess(a, b) ==
    IF b = "" THEN FALSE
    ELSE IF a = "" THEN TRUE
    ELSE IF Head(a) = Head(b) THEN StrLess(Tail(a), Tail(b))
    ELSE CodeOf[Head(a)] < CodeOf[Head(b)]

RECURSIVE Insert(_, _)
\* x put into the sorted sequence seq, after the elements not greater than it
Insert(x, seq) ==
    IF Len(seq) = 0 THEN <<x>>
    ELSE IF StrLess(x, Head(seq)) THEN <<x>> \o seq
    ELSE <<Head(seq)>> \o Insert(x, Tail(seq))

RECURSIVE Sorted(_)
\* sorted(seq)
Sorted(seq) == IF Len(seq) = 0 THEN <<>> ELSE Insert(Head(seq), Sorted(Tail(seq)))

RECURSIVE SetToSeq(_)
SetToSeq(S) ==
    IF S = {} THEN <<>> ELSE LET x == CHOOSE x \in S : TRUE IN <<x>> \o SetToSeq(S \ {x})

\* x.startswith(prefix)
StartsWith(x, prefix) == Len(prefix) <= Len(x) /\ SubSeq(x, 1, Len(prefix)) = prefix

\* click.Group.get_command: the command registered under exactly this name
GroupGetCommand(commands, cmd_name) ==
    IF cmd_name \in commands THEN Some(cmd_name) ELSE None

\* click.Group.list_commands: sorted(self.commands)
list_commands(commands) == Sorted(SetToSeq(commands))

\* [x for x in self.list_commands(ctx) if x.startswith(cmd_name)]
Matches(commands, cmd_name) ==
    SelectSeq(list_commands(commands), LAMBDA x : StartsWith(x, cmd_name))

\* get_command without the exact lookup first: prefixes only
get_command_prefix_only(commands, cmd_name) ==
    LET matches == Matches(commands, cmd_name)
    IN  IF Len(matches) = 0
        THEN [raised |-> "", value |-> None, message |-> "", listed |-> <<>>]
        ELSE IF Len(matches) = 1
        THEN [raised |-> "", value |-> GroupGetCommand(commands, matches[1]),
              message |-> "", listed |-> <<>>]
        ELSE [raised |-> "UsageError", value |-> None,
              message |-> "Ambiguous command. Too many matches: "
                              \o Join(", ", Sorted(matches)),
              listed |-> Sorted(matches)]

\* AliasedGroup.get_command: the command returned (None for no command), or
\* the usage error raised by ctx.fail, with its message and the matches listed
get_command(commands, cmd_name) ==
    LET rv == GroupGetCommand(commands, cmd_name)
        matches == Matches(commands, cmd_name)
    IN  IF rv # None
        THEN [raised |-> "", value |-> rv, message |-> "", listed |-> <<>>]
        ELSE IF Len(matches) = 0
        THEN [raised |-> "", value |-> None, message |-> "", listed |-> <<>>]
        ELSE IF Len(matches) = 1
        THEN [raised |-> "", value |-> GroupGetCommand(commands, matches[1]),
              message |-> "", listed |-> <<>>]
        ELSE [raised |-> "UsageError", value |-> None,
              message |-> "Ambiguous command. Too many matches: "
                              \o Join(", ", Sorted(matches)),
              listed |-> Sorted(matches)]

\* section.lines(pane_width) of a cheatsheet section, a Pane: each line exactly
\* pane_width characters
SectionLines(section, pane_width) ==
    [i \in 1..Len(section) |-> LJust(section[i], pane_width)]

\* the panes rendered one character wider than the width handed on
CheatsheetPanesWider(cheatsheet, setting) ==
    [i \in 1..Len(cheatsheet) |-> SectionLines(cheatsheet[i], setting.pane_width + 1)]

\* the panes the cheatsheet command builds
CheatsheetPanes(cheatsheet, setting) ==
    [i \in 1..Len(cheatsheet) |-> SectionLines(cheatsheet[i], setting.pane_width)]

\* the cheatsheet command once the setting and the cheatsheet are found: the
\* local panes, the blocks display_panes prints and the rows printed
cheatsheet_display(cheatsheet, setting) ==
    LET panes == CheatsheetPanes(cheatsheet, setting)
        blocks == display_panes(panes, setting.panes, setting.pane_width)
    IN  [raised |-> "", panes |-> panes, blocks |-> blocks, output |-> Flatten(blocks)]

(***************************************************************************)
(* The command groups, names, cheatsheets and settings the model tries.    *)
(***************************************************************************)
\* the commands fourhills.py registers
CliCommands == {"battle", "npcs", "scene", "cheatsheet"}

\* further names, so that a name can be a command and a prefix of others
CommandPool == CliCommands \cup {"scenery", "scenes", "n", "bat"}

CommandGroups == SUBSET CommandPool

\* every prefix of a name of the pool, the empty name among them, and two
\* names that are a prefix of none
CmdNames ==
    UNION {{SubSeq(c, 1, n) : n \in 0..Len(c)} : c \in CommandPool}
        \cup {"x", "battles"}

\* the sections a cheatsheet is made of: zero to three lines, none longer
\* than three characters
SectionPool == {<<>>, <<"a">>, <<"bb", "ccc">>, <<"d", "", "ee">>}

RECURSIVE SeqsUpTo(_, _)
\* the sequences over S of length at most n
SeqsUpTo(S, n) ==
    IF n = 0 THEN {<<>>}
    ELSE LET shorter == SeqsUpTo(S, n - 1)
         IN  shorter \cup {Append(q, x) : q \in shorter, x \in S}

Cheatsheets == SeqsUpTo(SectionPool, MaxSections)

Settings ==
    [panes : 1..MaxPanes, pane_width : MinPaneWidth..(MinPaneWidth + PaneSlack)]

(***************************************************************************)
(* The program as a state machine: sb is the StatBlock in hand (None       *)
(* before one is loaded), call the operation last invoked with its         *)
(* arguments, ret what it returned or raised.                              *)
(***************************************************************************)
Init ==
    /\ sb = None
    /\ call = [op |-> "start"]
    /\ ret = [raised |-> ""]

\* a run of the program begins with one operation: the command line resolves
\* a command, or a caller of stats.py loads a record or calls the static method
Fresh == call.op = "start"

\* the fourhills group has resolved the name typed to its cheatsheet command
CheatsheetResolved ==
    /\ call.op = "get_command"
    /\ call.commands = CliCommands
    /\ ret.value = Some("cheatsheet")

\* StatBlock.from_name: the stat file does not exist
FromNameMissing ==
    /\ Fresh
    /\ call' = [op |-> "from_name"]
    /\ ret' = [raised |-> "FourhillsSettingStructureError"]
    /\ UNCHANGED sb

\* StatBlock.from_file: the file is not valid YAML
FromFileInvalid ==
    /\ Fresh
    /\ call' = [op |-> "from_file"]
    /\ ret' = [raised |-> "FourhillsFileLoadError"]
    /\ UNCHANGED sb

\* StatBlock.from_file: cls(**stat_dict), the record being one of universe
FromFile(universe) ==
    /\ Fresh
    /\ \E s \in universe :
        /\ sb' = Some(s)
        /\ call' = [op |-> "from_file"]
        /\ ret' = [raised |-> ""]

\* StatBlock.calculate_ability_modifier, a static method, called on the class
CalculateAbilityModifier ==
    /\ Fresh
    /\ \E score \in Scores :
        /\ call' = [op |-> "calculate_ability_modifier", ability_score |-> score]
        /\ ret' = [raised |-> "", value |-> calculate_ability_modifier(score)]
        /\ UNCHANGED sb

\* sb.summary_info(line_width, quantity)
SummaryInfo ==
    /\ sb # None
    /\ \E w \in Widths, q \in Quantities :
        /\ call' = [op |-> "summary_info", line_width |-> w, quantity |-> q]
        /\ ret' = summary_info(sb[1], w, q)
        /\ UNCHANGED sb

\* sb.battle_info(line_width)
BattleInfo ==
    /\ sb # None
    /\ \E w \in Widths :
        /\ call' = [op |-> "battle_info", line_width |-> w]
        /\ ret' = battle_info(sb[1], w)
        /\ UNCHANGED sb

\* the group resolves the command name typed
GetCommand ==
    /\ Fresh
    /\ \E commands \in CommandGroups, cmd_name \in CmdNames :
        /\ call' = [op |-> "get_command", commands |-> commands, cmd_name |-> cmd_name]
        /\ ret' = get_command(commands, cmd_name)
        /\ UNCHANGED sb

\* get_setting: the directory is no part of a setting; the message is printed
\* and the process exits
CheatsheetNoSetting ==
    /\ CheatsheetResolved
    /\ call' = [op |-> "cheatsheet"]
    /\ ret' = [raised |-> "SystemExit",
               output |-> <<"Current directory does not appear to part of a valid setting:">>]
    /\ UNCHANGED sb

\* cheatsheet: no cheatsheet of that name; the error is echoed
CheatsheetUnknown ==
    /\ CheatsheetResolved
    /\ \E setting \in Settings :
        /\ call' = [op |-> "cheatsheet", setting |-> setting]
        /\ ret' = [raised |-> "Exit", output |-> <<"FourhillsFileNameError">>]
        /\ UNCHANGED sb

\* cheatsheet: the sections are rendered and displayed side by side
CheatsheetShow ==
    /\ CheatsheetResolved
    /\ \E setting \in Settings, cheatsheet \in Cheatsheets :
        /\ call' = [op |-> "cheatsheet", setting |-> setting, cheatsheet |-> cheatsheet]
        /\ ret' = cheatsheet_display(cheatsheet, setting)
        /\ UNCHANGED sb

Next ==
    \/ GetCommand
    \/ CheatsheetNoSetting
    \/ CheatsheetUnknown
    \/ CheatsheetShow
    \/ FromNameMissing
    \/ FromFileInvalid
    \/ FromFile(LayoutStatBlocks)
    \/ CalculateAbilityModifier
    \/ SummaryInfo
    \/ BattleInfo

Spec == Init /\ [][Next]_vars

\* sb.battle_info(line_width) on the record just loaded, at the widths next to
\* the bound and at the widest one
BattleInfoLoaded ==
    /\ call.op = "from_file"
    /\ sb # None
    /\ \E w \in {MIN_WIDTH - 1, MIN_WIDTH, MIN_WIDTH + WidthSlack} :
        /\ call' = [op |-> "battle_info", line_width |-> w]
        /\ ret' = battle_info(sb[1], w)
        /\ UNCHANGED sb

NextSections ==
    \/ FromFile(SectionStatBlocks)
    \/ BattleInfoLoaded

\* battle_info over every combination of optional fields
SpecSections == Init /\ [][NextSections]_vars

(***************************************************************************)
(* Properties.                                                             *)
(***************************************************************************)
BattleReturned == call.op = "battle_info" /\ ret.raised = ""

SummaryReturned == call.op = "summary_info" /\ ret.raised = ""

SectionNames == [i \in 1..Len(ret.sections) |-> ret.sections[i].name]

\* the lines of the section called name ("" when the section is not emitted)
LinesOf(name) ==
    Flatten([i \in 1..Len(ret.sections) |->
                IF ret.sections[i].name = name THEN ret.sections[i].lines ELSE <<>>])

\* text occurs in line
Contains(line, text) ==
    \E k \in 1..(Len(line) - Len(text) + 1) : SubSeq(line, k, k + Len(text) - 1) = text

\* the sections battle_info emits whatever the record holds
AlwaysSections ==
    {"ac", "hp", "speed", "rule_abilities", "ability_names", "ability_scores",
     "rule_details", "passive_perception", "languages", "challenge",
     "blank_traits", "header_traits", "rule_traits",
     "blank_actions", "header_actions", "rule_actions", "blank_description"}

\* C1: battle_info raises the width error for every width below 56 and
\* returns for every width from 56 on; when it raises no line has been
\* produced, and when it returns the lines are the whole layout, from the AC
\* line to the closing blank line.
C1_WidthCheck ==
    call.op = "battle_info" =>
        /\ call.line_width < 56 => ret.raised = "ValueError"
        /\ call.line_width >= 56 => ret.raised = ""
        /\ ret.raised # "" => ret.lines = <<>> /\ ret.sections = <<>>
        /\ ret.raised = "" =>
            /\ \A a \in AlwaysSections : \E i \in 1..Len(SectionNames) : SectionNames[i] = a
            /\ ret.lines[1] = "AC " \o sb[1].ac
            /\ Len(ret.lines) >= Cardinality(AlwaysSections)

\* C1 witness: the call at the bound itself, width 56, has returned its lines.
C1_Witness ==
    /\ BattleReturned
    /\ call.line_width = 56
    /\ Len(ret.lines) > 0

\* C2 as stated: every line battle_info and summary_info return is exactly
\* width characters long.
C2_EveryLineHasWidth ==
    (BattleReturned \/ SummaryReturned) =>
        \A i \in 1..Len(ret.lines) : Len(ret.lines[i]) = call.line_width

\* C2 amended: every rule is exactly width characters long, and so is every
\* centred line (the summary header, the two ability rows, the "Special
\* traits" and "Actions" headers) whose text is no longer than width; the
\* other lines are not padded: the AC line is its text and the blank lines
\* are empty.
C2_PaddedLinesHaveWidth ==
    /\ BattleReturned =>
        /\ \A r \in {"rule_abilities", "rule_details", "rule_traits", "rule_actions"} :
              LinesOf(r) = <<Repeat("-", call.line_width)>>
        /\ \A h \in {"header_traits", "header_actions"} :
              Len(LinesOf(h)) = 1 /\ Len(LinesOf(h)[1]) = call.line_width
        /\ Len(Join("", ret.ability_name_strings)) <= call.line_width
              => Len(LinesOf("ability_names")[1]) = call.line_width
        /\ Len(Join("", ret.ability_score_strings)) <= call.line_width
              => Len(LinesOf("ability_scores")[1]) = call.line_width
        /\ LinesOf("ac") = <<"AC " \o sb[1].ac>>
        /\ \A b \in {"blank_traits", "blank_actions", "blank_description"} :
              LinesOf(b) = <<"">>
    /\ SummaryReturned =>
        /\ ret.lines[2] = Repeat("=", call.line_width)
        /\ Len(ret.header_text) <= call.line_width
              => Len(ret.lines[1]) = call.line_width

\* C2 witness: battle_info has returned rules of the full width next to an AC
\* line that is shorter.
C2_Witness ==
    /\ BattleReturned
    /\ Len(LinesOf("rule_abilities")[1]) = call.line_width
    /\ Len(LinesOf("header_actions")[1]) = call.line_width
    /\ Len(LinesOf("ac")[1]) < call.line_width

\* the text of a score cell, with m the modifier claimed for the score
SignedCell(score, m) ==
    FormatD(score) \o "(" \o (IF m >= 0 THEN "+" ELSE "-")
        \o NatStr(IF m >= 0 THEN m ELSE 0 - m) \o ")"

\* C3: the modifier m of a score is floor((score - 10) / 2), the one integer
\* with 2m <= score - 10 <= 2m + 1 (10 and 11 give 0, 8 gives -1, 20 gives 5,
\* 1 gives -5), and battle_info shows it with its sign, "+" from zero up.
C3_AbilityModifier ==
    /\ call.op = "calculate_ability_modifier" =>
        /\ 2 * ret.value <= call.ability_score - 10
        /\ call.ability_score - 10 <= 2 * ret.value + 1
        /\ call.ability_score \in {10, 11} => ret.value = 0
        /\ call.ability_score = 8 => ret.value = -1
        /\ call.ability_score = 20 => ret.value = 5
        /\ call.ability_score = 1 => ret.value = -5
    /\ BattleReturned =>
        \A i \in 1..Len(sb[1].ability) :
            \E m \in -20..20 :
                /\ 2 * m <= sb[1].ability[i][2] - 10
                /\ sb[1].ability[i][2] - 10 <= 2 * m + 1
                /\ Contains(ret.ability_score_strings[i], SignedCell(sb[1].ability[i][2], m))
                /\ Contains(LinesOf("ability_scores")[1], SignedCell(sb[1].ability[i][2], m))

\* C3 witness: battle_info has shown the score 1 as "1(-5)" and the score 6 as
\* "6(-2)".
C3_Witness ==
    /\ BattleReturned
    /\ sb[1].ability[1][2] = 1
    /\ Contains(LinesOf("ability_scores")[1], "1(-5)")
    /\ Contains(LinesOf("ability_scores")[1], "6(-2)")

\* C7 as stated: summary_info returns three lines, the centred header, a rule
\* of width "=" and the size, type and alignment line, and the header text is
\* "{name} x{quantity}" whenever quantity is an integer, the bare name only
\* when it is None.
C7_SummaryHeader ==
    SummaryReturned =>
        /\ Len(ret.lines) = 3
        /\ ret.lines[2] = Repeat("=", call.line_width)
        /\ ret.lines[3] = "Large beast, unaligned"
        /\ Contains(ret.lines[1], ret.header_text)
        /\ call.quantity = None => ret.header_text = sb[1].name
        /\ call.quantity # None
              => ret.header_text = sb[1].name \o " x" \o FormatD(call.quantity[1])

\* C10: with six abilities and a width of 56 or more, every name cell and every
\* score cell is laid out in a field of floor(width / 6) characters, in the
\* stored order; the field is at least 9 wide, every score from 1 to MaxScore
\* fits its cell, and the row of six score cells is 6 * floor(width / 6) <=
\* width characters before it is centred in the width.
C10_AbilityCells ==
    (BattleReturned /\ Len(sb[1].ability) = 6 /\ call.line_width >= 56) =>
        LET field == call.line_width \div 6
        IN  /\ ret.ability_width = field
            /\ field >= 9
            /\ Len(ret.ability_name_strings) = 6
            /\ Len(ret.ability_score_strings) = 6
            /\ \A i \in 1..6 :
                /\ Contains(ret.ability_name_strings[i], sb[1].ability[i][1])
                /\ Len(sb[1].ability[i][1]) <= field
                      => Len(ret.ability_name_strings[i]) = field
                /\ Contains(ret.ability_score_strings[i],
                            FormatD(sb[1].ability[i][2]) \o "(")
                /\ sb[1].ability[i][2] \in 1..MaxScore
                      => Len(ret.ability_score_strings[i]) = field
            /\ (\A i \in 1..6 : sb[1].ability[i][2] \in 1..MaxScore) =>
                /\ Len(Join("", ret.ability_score_strings)) = 6 * field
                /\ 6 * field <= call.line_width
                /\ Len(LinesOf("ability_scores")[1]) = call.line_width
                /\ Contains(LinesOf("ability_scores")[1], Join("", ret.ability_score_strings))

\* C10 witness: at width 56 the score MaxScore sits in a cell of 9 characters.
C10_Witness ==
    /\ BattleReturned
    /\ call.line_width = 56
    /\ sb[1].ability[6][2] = MaxScore
    /\ Len(ret.ability_score_strings[6]) = 9

\* the sections battle_info emits only for data that is there
OptionalSections == OptionalFields \ {"languages"}

\* the optional field f of the record holds data: it is not None and not empty
FieldPresent(f) == sb[1][f] # None /\ Len(sb[1][f][1]) > 0

\* the optional sections that begin with a title of their own
SectionTitles ==
    {<<"saving_throws", "Saving throws:">>, <<"skills", "Skills:">>,
     <<"damage_vulnerabilities", "Damage vulnerabilities:">>,
     <<"damage_resistances", "Damage resistances:">>,
     <<"damage_immunities", "Damage immunities:">>,
     <<"condition_immunities", "Condition immunities:">>,
     <<"special_senses", "Senses:">>, <<"multiattack", "Multiattack:">>}

\* C4: an optional section contributes lines exactly when its data is present;
\* absent, it leaves no section, no title and no line, and nothing is raised;
\* the sections always shown are each emitted once whatever is present, so a
\* record with no optional data renders as exactly 17 lines.
C4_OptionalSections ==
    /\ (call.op = "battle_info" /\ call.line_width >= 56) => ret.raised = ""
    /\ BattleReturned =>
        /\ \A f \in OptionalSections :
            /\ (Len(LinesOf(f)) > 0) <=> FieldPresent(f)
            /\ (\E i \in 1..Len(SectionNames) : SectionNames[i] = f) <=> FieldPresent(f)
        /\ \A t \in SectionTitles :
            (\E i \in 1..Len(ret.lines) : StartsWith(ret.lines[i], t[2]))
                <=> FieldPresent(t[1])
        /\ \A a \in AlwaysSections :
            /\ Cardinality({i \in 1..Len(SectionNames) : SectionNames[i] = a}) = 1
            /\ Len(LinesOf(a)) >= 1
        /\ \A i \in 1..Len(SectionNames) :
            SectionNames[i] \in AlwaysSections \cup OptionalSections
        /\ ret.lines = Flatten([i \in 1..Len(ret.sections) |-> ret.sections[i].lines])
        /\ (\A f \in OptionalFields : ~FieldPresent(f)) => Len(ret.lines) = 17

\* C4 witness: a record without saving throws, skills and special traits, its
\* skills an empty mapping, but with melee attacks, has been rendered.
C4_Witness ==
    /\ BattleReturned
    /\ ~FieldPresent("saving_throws")
    /\ sb[1].skills = Some(<<>>)
    /\ ~FieldPresent("special_traits")
    /\ FieldPresent("melee_attacks")
    /\ Len(LinesOf("melee_attacks")) > 0
    /\ LinesOf("skills") = <<>>

\* the one order of the sections of battle_info
LayoutOrder ==
    <<"ac", "hp", "speed", "rule_abilities", "ability_names", "ability_scores",
      "rule_details", "saving_throws", "skills", "damage_vulnerabilities",
      "damage_resistances", "damage_immunities", "condition_immunities",
      "passive_perception", "special_senses", "languages", "challenge",
      "blank_traits", "header_traits", "rule_traits", "special_traits",
      "blank_actions", "header_actions", "rule_actions", "melee_attacks",
      "ranged_attacks", "multiattack", "other_actions", "blank_description",
      "description">>

\* the place of a section in the order, 0 for a section the order does not hold
Place(name) ==
    IF \E k \in 1..Len(LayoutOrder) : LayoutOrder[k] = name
    THEN CHOOSE k \in 1..Len(LayoutOrder) : LayoutOrder[k] = name
    ELSE 0

\* C5: whatever optional fields are present, the sections battle_info emits
\* follow the one fixed order: each emitted section stands later in the order
\* than the section emitted just before it, and so than every earlier one.
C5_SectionOrder ==
    BattleReturned =>
        /\ \A i \in 1..Len(SectionNames) : Place(SectionNames[i]) > 0
        /\ \A i \in 1..(Len(SectionNames) - 1) :
            Place(SectionNames[i]) < Place(SectionNames[i + 1])

\* C5 witness: a record with every optional field present has been rendered
\* as all thirty sections.
C5_Witness ==
    /\ BattleReturned
    /\ Len(ret.sections) = Len(LayoutOrder)
    /\ \A f \in OptionalFields : FieldPresent(f)

\* C6: battle_info always emits one Languages entry; with languages None the
\* list handed to the formatter is the single item "none", with a non-empty
\* list it is that list in its order, without the sentinel.
C6_LanguagesDefault ==
    BattleReturned =>
        LET entries == {i \in 1..Len(ret.sections) : ret.sections[i].name = "languages"}
        IN  /\ Cardinality(entries) = 1
            /\ \A i \in entries :
                /\ sb[1].languages = None =>
                    /\ ret.sections[i].items = <<"none">>
                    /\ ret.sections[i].lines = <<"Languages: none">>
                /\ FieldPresent("languages") =>
                    /\ ret.sections[i].items = sb[1].languages[1]
                    /\ ret.sections[i].lines = <<"Languages: Sylvan, Common, Elvish">>

\* C6 witness: a record whose languages are None has been rendered with the
\* line "Languages: none".
C6_Witness ==
    /\ BattleReturned
    /\ sb[1].languages = None
    /\ LinesOf("languages") = <<"Languages: none">>

CheatsheetShown == call.op = "cheatsheet" /\ ret.raised = ""

\* C8: the cheatsheet command renders every pane line at the pane_width it
\* hands to display_panes; the panes are shown in consecutive groups of
\* num_panes, the last one maybe shorter; a group prints as many rows as its
\* longest pane has lines, and each row is the lines of the group's panes side
\* by side, pane_width blanks for a pane that has run out, so it is (panes in
\* the group) * pane_width characters long.
C8_CompositorAlignment ==
    CheatsheetShown =>
        LET k == call.setting.panes
            w == call.setting.pane_width
            n == Len(call.cheatsheet)
            First(g) == (g - 1) * k + 1
            Last(g) == IF g * k <= n THEN g * k ELSE n
        IN  /\ Len(ret.panes) = n
            /\ \A j \in 1..n :
                /\ Len(ret.panes[j]) = Len(call.cheatsheet[j])
                /\ \A r \in 1..Len(ret.panes[j]) :
                    /\ Len(ret.panes[j][r]) = w
                    /\ StartsWith(ret.panes[j][r], call.cheatsheet[j][r])
            /\ Len(ret.blocks) * k >= n
            /\ (Len(ret.blocks) - 1) * k < n \/ n = 0
            /\ n = 0 => Len(ret.blocks) = 0
            /\ \A g \in 1..Len(ret.blocks) :
                /\ \A j \in First(g)..Last(g) : Len(ret.panes[j]) <= Len(ret.blocks[g])
                /\ \E j \in First(g)..Last(g) : Len(ret.panes[j]) = Len(ret.blocks[g])
                /\ \A r \in 1..Len(ret.blocks[g]) :
                    /\ Len(ret.blocks[g][r]) = (Last(g) - First(g) + 1) * w
                    /\ \A j \in First(g)..Last(g) :
                        SubSeq(ret.blocks[g][r], (j - First(g)) * w + 1,
                               (j - First(g) + 1) * w)
                          = IF r <= Len(ret.panes[j]) THEN ret.panes[j][r]
                            ELSE Repeat(" ", w)
            /\ ret.output = Flatten(ret.blocks)

\* C8 witness: three panes of unequal length have been shown two to a row, in
\* a full group and a short one.
C8_Witness ==
    /\ CheatsheetShown
    /\ call.setting.panes = 2
    /\ Len(call.cheatsheet) = 3
    /\ Len(ret.blocks) = 2
    /\ Len(ret.blocks[1]) = 3
    /\ Len(call.cheatsheet[1]) = 1
    /\ Len(ret.blocks[2]) = 2
    /\ Len(ret.blocks[2][1]) = call.setting.pane_width

\* the registered commands the name typed is a prefix of
PrefixOf == {c \in call.commands : StartsWith(c, call.cmd_name)}

\* C9: a name that is a registered command resolves to it, whatever else it
\* is a prefix of; any other name resolves to the one command it is a prefix
\* of, to nothing when it is a prefix of none, and fails as ambiguous,
\* resolving to nothing and listing the matches in sorted order, when it is a
\* prefix of two or more.
C9_CommandResolution ==
    call.op = "get_command" =>
        /\ call.cmd_name \in call.commands =>
            ret.raised = "" /\ ret.value = Some(call.cmd_name)
        /\ (call.cmd_name \notin call.commands /\ Cardinality(PrefixOf) = 1) =>
            ret.raised = "" /\ ret.value # None /\ ret.value[1] \in PrefixOf
        /\ (call.cmd_name \notin call.commands /\ PrefixOf = {}) =>
            ret.raised = "" /\ ret.value = None
        /\ (call.cmd_name \notin call.commands /\ Cardinality(PrefixOf) >= 2) =>
            /\ ret.raised = "UsageError"
            /\ ret.value = None
            /\ {ret.listed[i] : i \in 1..Len(ret.listed)} = PrefixOf
            /\ Len(ret.listed) = Cardinality(PrefixOf)
            /\ \A i \in 1..(Len(ret.listed) - 1) : StrLess(ret.listed[i], ret.listed[i + 1])
            /\ ret.message = "Ambiguous command. Too many matches: "
                                \o Join(", ", ret.listed)

\* C9 witness: "scene" has resolved to the command scene in a group that also
\* holds scenery and scenes.
C9_Witness ==
    /\ call.op = "get_command"
    /\ call.cmd_name = "scene"
    /\ {"scene", "scenery", "scenes"} \subseteq call.commands
    /\ ret.value = Some("scene")

====
